---- MODULE Spec2Model ----
(***************************************************************************)
(* A model of src/types/excelsheet.rs: the Header model, the ExcelSheet    *)
(* aggregate with its lazily memoized width and height, the typed column   *)
(* projectors, and the conversion of a sheet to a RecordBatch.             *)
(*                                                                         *)
(* Conventions.  A Rust Option<T> is the set {} (None) or {x} (Some(x)),   *)
(* and Option::and_then and Option::map are written out where called.      *)
(* A cell is a record [kind, v]: the variant of calamine::DataType and its *)
(* payload.  An array is a record [dtype, len, values]; values holds one   *)
(* Option per row, except for a NullArray, which stores its length only.   *)
(* A float payload is the number it denotes; every float of the model is   *)
(* integral.                                                               *)
(***************************************************************************)
EXTENDS Integers, Sequences, FiniteSets, TLC

\* ------------------------------------------------------------------ bounds

\* Largest number of rows and of columns of a grid.
MaxRows == 2
MaxCols == 2
\* Largest number of fields of a schema.
MaxFields == 2
\* Largest header_row argument; At(MaxHeaderRow) lies beyond every grid.
MaxHeaderRow == 2
\* usize is modelled with UsizeBits bits, so that a wrapped subtraction is a
\* number TLC can hold.
UsizeBits == 16

UsizeMod == 2 ^ UsizeBits

\* ------------------------------------------------------------ Option<T>

None == {}

Some(x) == {x}

unwrap(o) == CHOOSE x \in o : TRUE

\* ------------------------------------------------------------ the cells

Cell(k, x) == [kind |-> k, v |-> x]

\* The cells a grid is filled from; the integers are Excel serial dates too.
CellPool ==
    << Cell("Int", 25570), Cell("String", "a"), Cell("Bool", TRUE),
       Cell("Float", 25571), Cell("Empty", 0), Cell("DateTime", 25572),
       Cell("Int", 25569), Cell("Bool", FALSE), Cell("Error", 0) >>

\* The cell layouts: layout p puts CellPool's cells, from the p-th on, in
\* row-major order.
Patterns == {0, 3}

PatternCell(p, i) == CellPool[((p + i) % Len(CellPool)) + 1]

\* calamine::Range<DataType>: h rows of w columns, row-major in inner.
\* An empty range has neither rows nor columns.
Range(h, w, p) ==
    [h |-> h, w |-> w, inner |-> [i \in 1..(h * w) |-> PatternCell(p, i - 1)]]

Grids ==
    {Range(0, 0, 0)} \cup
    {Range(h, w, p) : h \in 1..MaxRows, w \in 1..MaxCols, p \in Patterns}

\* Range::height, Range::width
Range_height(d) == d.h

Range_width(d) == d.w

\* Range::get((row, col)): the cell, or None outside the range.
Range_get(d, row, col) ==
    IF row < d.h /\ col < d.w THEN Some(d.inner[row * d.w + col + 1]) ELSE None

\* calamine::DataType::get_bool / get_int / get_float / get_string: the payload
\* of a cell of exactly that variant.
get_bool(cell) == IF cell.kind = "Bool" THEN Some(cell.v) ELSE None

get_int(cell) == IF cell.kind = "Int" THEN Some(cell.v) ELSE None

get_float(cell) == IF cell.kind = "Float" THEN Some(cell.v) ELSE None

get_string(cell) == IF cell.kind = "String" THEN Some(cell.v) ELSE None

\* calamine::DataType::as_datetime: an integer, float or datetime cell is an
\* Excel serial date, 25569 days after the Excel epoch being the Unix epoch.
\* The datetime is held as its seconds since the Unix epoch.
as_datetime(cell) ==
    IF cell.kind \in {"Int", "Float", "DateTime"}
    THEN Some((cell.v - 25569) * 86400)
    ELSE None

\* chrono::NaiveDateTime::timestamp_millis
timestamp_millis(dt) == dt * 1000

\* ------------------------------------------------------------ the header

HeaderNone == [tag |-> "None", index |-> 0, names |-> << >>]

HeaderAt(row) == [tag |-> "At", index |-> row, names |-> << >>]

HeaderWith(headers) == [tag |-> "With", index |-> 0, names |-> headers]

\* Header::new, had the header row won over the column names.
Header_new_row_first(hrow, cnames) ==
    IF hrow # None THEN HeaderAt(unwrap(hrow))
    ELSE IF cnames # None THEN HeaderWith(unwrap(cnames))
    ELSE HeaderNone

\* Header::new
Header_new(hrow, cnames) ==
    IF cnames # None THEN HeaderWith(unwrap(cnames))
    ELSE IF hrow # None THEN HeaderAt(unwrap(hrow))
    ELSE HeaderNone

\* Header::header_offset
header_offset(hd) ==
    CASE hd.tag = "At" -> hd.index + 1
      [] hd.tag = "None" -> 0
      [] hd.tag = "With" -> 0

\* ------------------------------------------------------------- the sheet

VARIABLES
    name,             \* ExcelSheet.name
    schema,           \* ExcelSheet.schema: the fields, [name, data_type] each
    header,           \* ExcelSheet.header
    data,             \* ExcelSheet.data
    height,           \* ExcelSheet.height: Option<usize>
    width,            \* ExcelSheet.width: Option<usize>
    header_row,       \* the header_row argument the header was built from
    column_names,     \* the column_names argument the header was built from
    overflow_checks,  \* whether the build panics on integer overflow
    op,               \* the last operation called on the sheet
    ret               \* what that operation returned

vars ==
    << name, schema, header, data, height, width, header_row, column_names,
       overflow_checks, op, ret >>

sheet == << name, schema, header, data, header_row, column_names, overflow_checks >>

\* The declared types: those try_from has an arm for, and one it has not.
SupportedTypes == {"Boolean", "Int64", "Float64", "Utf8", "Date64", "Null"}

DataTypes == SupportedTypes \cup {"Int32"}

FieldNames == << "a", "b", "c", "d" >>

Schemas ==
    UNION { [1..n -> DataTypes] : n \in 0..MaxFields }

Field(i, t) == [name |-> FieldNames[i], data_type |-> t]

\* ------------------------------------------------------------ the results

NoBatch == << >>

Result(k, x, b, c, t) == [kind |-> k, n |-> x, batch |-> b, ctx |-> c, text |-> t]

NoResult == Result("none", 0, NoBatch, << >>, << >>)

Usize(x) == Result("usize", x, NoBatch, << >>, << >>)

Str(t) == Result("string", 0, NoBatch, << >>, t)

\* A panic, with its message.
Panic(msg) == Result("panic", 0, NoBatch, << >>, << msg >>)

Ok(b) == Result("batch", 0, b, << >>, << >>)

\* An anyhow::Error: the cause and the contexts added to it, innermost first.
Err(cause, c) == Result("err", 0, NoBatch, c, << cause >>)

\* Result::with_context
with_context(r, c) == IF r.kind = "err" THEN [r EXCEPT !.ctx = Append(@, c)] ELSE r

OverflowMsg == "attempt to subtract with overflow"

UnreachableMsg == "internal error: entered unreachable code"

\* a - b on usize, had it been a saturating_sub.
usize_sub_saturating(a, b, checks) == IF a >= b THEN Usize(a - b) ELSE Usize(0)

\* a - b on usize: the difference, or on overflow a panic in a build with
\* overflow checks and the difference modulo 2^bits in one without.
usize_sub(a, b, checks) ==
    IF a >= b THEN Usize(a - b)
    ELSE IF checks THEN Panic(OverflowMsg)
    ELSE Usize((a - b) % UsizeMod)

\* ------------------------------------------------------- the projectors

\* The rows of the Rust range offset..h, in order: none when h <= offset.
rows(offset, h) ==
    [i \in 1..(IF h > offset THEN h - offset ELSE 0) |-> offset + i - 1]

\* An arrow array collected by from_iter from one Option per row.
from_iter(dtype, options) ==
    [dtype |-> dtype, len |-> Len(options), values |-> options]

create_boolean_array(d, col, offset, h) ==
    from_iter("Boolean",
        [i \in DOMAIN rows(offset, h) |->
            LET cell == Range_get(d, rows(offset, h)[i], col)
            IN  IF cell = None THEN None ELSE get_bool(unwrap(cell))])

\* create_int_array, had it read the rows from 0 on.
create_int_array_from_zero(d, col, offset, h) ==
    from_iter("Int64",
        [i \in DOMAIN rows(0, h) |->
            LET cell == Range_get(d, rows(0, h)[i], col)
            IN  IF cell = None THEN None ELSE get_int(unwrap(cell))])

create_int_array(d, col, offset, h) ==
    from_iter("Int64",
        [i \in DOMAIN rows(offset, h) |->
            LET cell == Range_get(d, rows(offset, h)[i], col)
            IN  IF cell = None THEN None ELSE get_int(unwrap(cell))])

create_float_array(d, col, offset, h) ==
    from_iter("Float64",
        [i \in DOMAIN rows(offset, h) |->
            LET cell == Range_get(d, rows(offset, h)[i], col)
            IN  IF cell = None THEN None ELSE get_float(unwrap(cell))])

create_string_array(d, col, offset, h) ==
    from_iter("Utf8",
        [i \in DOMAIN rows(offset, h) |->
            LET cell == Range_get(d, rows(offset, h)[i], col)
            IN  IF cell = None THEN None ELSE get_string(unwrap(cell))])

create_date_array(d, col, offset, h) ==
    from_iter("Timestamp(Millisecond)",
        [i \in DOMAIN rows(offset, h) |->
            LET cell == Range_get(d, rows(offset, h)[i], col)
                dt == IF cell = None THEN None ELSE as_datetime(unwrap(cell))
            IN  IF dt = None THEN None ELSE Some(timestamp_millis(unwrap(dt)))])

\* NullArray::new(len): the length alone, no values.
NullArray_new(n) == [dtype |-> "Null", len |-> n, values |-> << >>]

\* ---------------------------------------------------------- the batch

\* The match of try_from, had it taken a column beyond the grid for unreachable.
column_within_grid(d, col_idx, field, offset, h, checks) ==
    IF col_idx >= Range_width(d) THEN Panic(UnreachableMsg)
    ELSE CASE field.data_type = "Boolean" ->
                 Ok(<< create_boolean_array(d, col_idx, offset, h) >>)
           [] field.data_type = "Int64" ->
                 Ok(<< create_int_array(d, col_idx, offset, h) >>)
           [] field.data_type = "Float64" ->
                 Ok(<< create_float_array(d, col_idx, offset, h) >>)
           [] field.data_type = "Utf8" ->
                 Ok(<< create_string_array(d, col_idx, offset, h) >>)
           [] field.data_type = "Date64" ->
                 Ok(<< create_date_array(d, col_idx, offset, h) >>)
           [] field.data_type = "Null" ->
                 LET n == usize_sub(h, offset, checks)
                 IN  IF n.kind = "panic" THEN n ELSE Ok(<< NullArray_new(n.n) >>)
           [] OTHER -> Panic(UnreachableMsg)

\* The match of try_from on one field: the array, or the panic that ends the
\* conversion there.  col_idx counts from 0.
column(d, col_idx, field, offset, h, checks) ==
    CASE field.data_type = "Boolean" ->
            Ok(<< create_boolean_array(d, col_idx, offset, h) >>)
      [] field.data_type = "Int64" ->
            Ok(<< create_int_array(d, col_idx, offset, h) >>)
      [] field.data_type = "Float64" ->
            Ok(<< create_float_array(d, col_idx, offset, h) >>)
      [] field.data_type = "Utf8" ->
            Ok(<< create_string_array(d, col_idx, offset, h) >>)
      [] field.data_type = "Date64" ->
            Ok(<< create_date_array(d, col_idx, offset, h) >>)
      [] field.data_type = "Null" ->
            LET n == usize_sub(h, offset, checks)
            IN  IF n.kind = "panic" THEN n ELSE Ok(<< NullArray_new(n.n) >>)
      [] OTHER -> Panic(UnreachableMsg)

\* RecordBatch::try_from_iter: the columns, named, in the order given; an
\* error when there is no column or when two columns differ in length.
try_from_iter(pairs) ==
    IF pairs = << >>
    THEN Err("must either specify a row count or at least one column", << >>)
    ELSE IF \E i \in 1..Len(pairs) : pairs[i].array.len # pairs[1].array.len
    THEN Err("all columns in a record batch must have the same length", << >>)
    ELSE Ok(pairs)

ConvertContext(sheet_name) ==
    [text |-> "Could not convert sheet {} to RecordBatch", sheet |-> sheet_name]

\* impl TryFrom<&ExcelSheet> for RecordBatch.  The iterator is consumed in
\* field order, so the first field that panics ends the conversion.
try_from(sheet_name, fields, hd, d, checks) ==
    LET offset == header_offset(hd)
        h == Range_height(d)
        col(i) == column(d, i - 1, fields[i], offset, h, checks)
        panics == {i \in 1..Len(fields) : col(i).kind = "panic"}
    IN  IF panics # {}
        THEN col(CHOOSE i \in panics : \A j \in panics : i <= j)
        ELSE with_context(
                 try_from_iter([i \in 1..Len(fields) |->
                     [name |-> fields[i].name, array |-> col(i).batch[1]]]),
                 ConvertContext(sheet_name))

\* ------------------------------------------------------ the operations

\* ExcelSheet::new: the sheet as constructed, neither width nor height known.
ExcelSheet_new(sheet_name, fields, d, hd) ==
    [name |-> sheet_name, schema |-> fields, header |-> hd, data |-> d,
     height |-> None, width |-> None]

SheetNames == {"Sheet1"}

HeaderRows == {None} \cup {Some(r) : r \in 0..MaxHeaderRow}

ColumnNames == {None, Some(<< "x", "y" >>)}

\* The builds a sheet is run under.  Overflow checks show only in a sheet whose
\* offset exceeds its grid's height, the one subtraction that can overflow:
\* such a sheet is run under both builds, every other sheet under one.
Builds(d, hd) == IF header_offset(hd) > Range_height(d) THEN BOOLEAN ELSE {FALSE}

Init ==
    \E sheet_name \in SheetNames, types \in Schemas, d \in Grids,
       hrow \in HeaderRows, cnames \in ColumnNames :
      \E checks \in Builds(d, Header_new(hrow, cnames)) :
        LET fields == [i \in 1..Len(types) |-> Field(i, types[i])]
            s == ExcelSheet_new(sheet_name, fields, d, Header_new(hrow, cnames))
        IN  /\ name = s.name
            /\ schema = s.schema
            /\ header = s.header
            /\ data = s.data
            /\ height = s.height
            /\ width = s.width
            /\ header_row = hrow
            /\ column_names = cnames
            /\ overflow_checks = checks
            /\ op = "new"
            /\ ret = NoResult

\* ExcelSheet::offset
offset == header_offset(header)

\* The name getter of the sheet.
get_name ==
    /\ op' = "name"
    /\ ret' = Str(<< name >>)
    /\ UNCHANGED << sheet, height, width >>

\* ExcelSheet::width
Width ==
    /\ op' = "width"
    /\ IF width # None
       THEN /\ ret' = Usize(unwrap(width))
            /\ width' = width
       ELSE LET w == Range_width(data)
            IN  /\ width' = Some(w)
                /\ ret' = Usize(w)
    /\ UNCHANGED << sheet, height >>

\* ExcelSheet::height.  A panic in the subtraction leaves the cache unset.
Height ==
    /\ op' = "height"
    /\ IF height # None
       THEN /\ ret' = Usize(unwrap(height))
            /\ height' = height
       ELSE LET h == usize_sub(Range_height(data), offset, overflow_checks)
            IN  /\ height' = IF h.kind = "panic" THEN height ELSE Some(h.n)
                /\ ret' = h
    /\ UNCHANGED << sheet, width >>

\* The offset getter of the sheet.
Offset ==
    /\ op' = "offset"
    /\ ret' = Usize(offset)
    /\ UNCHANGED << sheet, height, width >>

CreateContext(sheet_name) ==
    [text |-> "Could not create RecordBatch from sheet {}", sheet |-> sheet_name]

\* to_arrow, had it memoized the grid height it reads.
to_arrow_memoizing ==
    /\ op' = "to_arrow"
    /\ ret' = with_context(
                  try_from(name, schema, header, data, overflow_checks),
                  CreateContext(name))
    /\ height' = Some(Range_height(data))
    /\ UNCHANGED << sheet, width >>

\* ExcelSheet::to_arrow, up to the batch it hands to record_batch_to_pybytes.
to_arrow ==
    /\ op' = "to_arrow"
    /\ ret' = with_context(
                  try_from(name, schema, header, data, overflow_checks),
                  CreateContext(name))
    /\ UNCHANGED << sheet, height, width >>

\* ExcelSheet::__repr__
repr ==
    /\ op' = "repr"
    /\ ret' = Str(<< "ExcelSheet<", name, ">" >>)
    /\ UNCHANGED << sheet, height, width >>

Next ==
    \/ get_name
    \/ Width
    \/ Height
    \/ Offset
    \/ to_arrow
    \/ repr

Spec == Init /\ [][Next]_vars

\* ------------------------------------------------------------ the claims

GridHeight == Range_height(data)

GridWidth == Range_width(data)

TypedTypes == SupportedTypes \ {"Null"}

\* The fields whose declared type is in the set ts.
FieldsOf(ts) == {i \in 1..Len(schema) : schema[i].data_type \in ts}

AllSupported == schema # << >> /\ FieldsOf(SupportedTypes) = 1..Len(schema)

AllTyped == schema # << >> /\ FieldsOf(TypedTypes) = 1..Len(schema)

\* The conversion was the last operation and returned a batch.
Converted == op = "to_arrow" /\ ret.kind = "batch"

\* The grid cell behind entry r (from 1) of field i (from 1).
CellAt(r, i) == Range_get(data, offset + r - 1, i - 1)

\* C1: for every schema of supported types, the conversion returns a batch of
\* len(schema) columns, in schema order and under the schema's names, each of
\* grid.height() - offset() rows.
C1_BatchShape ==
    (op = "to_arrow" /\ AllSupported) =>
        /\ ret.kind = "batch"
        /\ Len(ret.batch) = Len(schema)
        /\ \A i \in 1..Len(schema) :
              /\ ret.batch[i].name = schema[i].name
              /\ ret.batch[i].array.len = GridHeight - offset

\* C2: in a returned batch, entry r of a typed column i is decided by the grid
\* cell (offset + r, i) alone: the column covers the rows from offset on, in
\* order; an absent cell gives null; an Integer column gives v for an integer
\* cell holding v and null for any other cell; equal cells under equal
\* declared types give equal entries.  A schema of typed columns always
\* converts.
C2_TypedProjection ==
    /\ (op = "to_arrow" /\ AllTyped) => ret.kind = "batch"
    /\ Converted =>
          \A i \in FieldsOf(TypedTypes) :
              LET arr == ret.batch[i].array
              IN  /\ arr.len = (IF GridHeight > offset THEN GridHeight - offset ELSE 0)
                  /\ Len(arr.values) = arr.len
                  /\ \A r \in 1..arr.len :
                        /\ CellAt(r, i) = None => arr.values[r] = None
                        /\ schema[i].data_type = "Int64" =>
                              arr.values[r] =
                                  IF CellAt(r, i) # None /\ unwrap(CellAt(r, i)).kind = "Int"
                                  THEN Some(unwrap(CellAt(r, i)).v)
                                  ELSE None
                        /\ \A j \in FieldsOf({schema[i].data_type}) :
                              \A q \in 1..arr.len :
                                  CellAt(q, j) = CellAt(r, i) =>
                                      ret.batch[j].array.values[q] = arr.values[r]

\* A batch whose Integer column, read below a header row, holds an integer.
C2_Witness ==
    /\ Converted
    /\ offset >= 1
    /\ \E i \in FieldsOf({"Int64"}) :
          \E r \in 1..ret.batch[i].array.len : ret.batch[i].array.values[r] # None

\* C3: offset() is 0 when column_names was given, header_row or not; it is
\* header_row + 1 when header_row alone was given; it is 0 when neither was;
\* and it never changes.
C3_Offset ==
    /\ [](/\ column_names # None => header.tag = "With" /\ offset = 0
          /\ (column_names = None /\ header_row # None) =>
                header.tag = "At" /\ offset = unwrap(header_row) + 1
          /\ (column_names = None /\ header_row = None) =>
                header.tag = "None" /\ offset = 0
          /\ op = "offset" => ret = Usize(offset))
    /\ [][offset' = offset]_vars

\* offset() called on a sheet built from both a header row and column names.
C3_Witness ==
    /\ op = "offset"
    /\ column_names # None
    /\ header_row # None /\ unwrap(header_row) > 0
    /\ ret.n = 0

\* C4: both caches start unset; only width() sets the width cache and only
\* height() the height cache, each to the value that call returns and without
\* touching the other; a set cache is never reset or overwritten; and a call
\* on a set cache returns the cached value.
C4_Caches ==
    /\ (height = None /\ width = None)
    /\ [][/\ width # None => width' = width
          /\ height # None => height' = height
          /\ width' # width => op' = "width"
          /\ height' # height => op' = "height"
          /\ op' = "width" => ret'.kind = "usize" /\ width' = Some(ret'.n) /\ height' = height
          /\ (op' = "height" /\ ret'.kind = "usize") => height' = Some(ret'.n) /\ width' = width
          /\ (op' = "width" /\ width # None) => ret' = Usize(unwrap(width))
          /\ (op' = "height" /\ height # None) => ret' = Usize(unwrap(height))
          /\ (op' = op /\ op \in {"width", "height"}) => ret' = ret]_vars

\* Both caches set, and another operation called since.
C4_Witness ==
    /\ width # None
    /\ height # None
    /\ op = "to_arrow"
    /\ offset > 0

\* C5: a column declared Null comes out as an all-null column of exactly
\* grid.height() - offset() entries, the length of every other column.
C5_NullColumn ==
    (op = "to_arrow" /\ AllSupported) =>
        /\ ret.kind = "batch"
        /\ \A i \in FieldsOf({"Null"}) :
              /\ ret.batch[i].array.dtype = "Null"
              /\ ret.batch[i].array.len = GridHeight - offset
              /\ \A j \in 1..Len(schema) :
                    ret.batch[j].array.len = ret.batch[i].array.len

\* C6: a conversion ends in a complete batch, or in one error naming the
\* sheet, or in the unreachable panic, the last only when some declared type
\* is unsupported.
C6_Outcomes ==
    op = "to_arrow" =>
        \/ /\ ret.kind = "batch"
           /\ Len(ret.batch) = Len(schema)
        \/ /\ ret.kind = "err"
           /\ ret.batch = NoBatch
           /\ ret.ctx # << >>
           /\ \A k \in 1..Len(ret.ctx) : ret.ctx[k].sheet = name
        \/ /\ ret.kind = "panic"
           /\ ret.text = << UnreachableMsg >>
           /\ FieldsOf(SupportedTypes) # 1..Len(schema)

\* C7: in a column declared Float, an integer cell of a data row comes out as
\* the equal float and a text cell as null.
C7_FloatFromInt ==
    Converted =>
        \A i \in FieldsOf({"Float64"}) :
            \A r \in 1..ret.batch[i].array.len :
                /\ (CellAt(r, i) # None /\ unwrap(CellAt(r, i)).kind = "Int") =>
                      ret.batch[i].array.values[r] = Some(unwrap(CellAt(r, i)).v)
                /\ (CellAt(r, i) # None /\ unwrap(CellAt(r, i)).kind = "String") =>
                      ret.batch[i].array.values[r] = None

\* C8: height() returns grid.height() - offset() when the grid is at least
\* as high as the offset, 0 included; when it is lower the subtraction
\* overflows: the call panics, or returns the difference wrapped around,
\* and neither clamps to 0 nor returns an error value.
C8_Height ==
    op = "height" =>
        IF GridHeight >= offset
        THEN /\ ret = Usize(GridHeight - offset)
             /\ height = Some(GridHeight - offset)
        ELSE \/ /\ overflow_checks
                /\ ret = Panic(OverflowMsg)
                /\ height = None
             \/ /\ ~overflow_checks
                /\ ret = Usize(UsizeMod - (offset - GridHeight))
                /\ ret.n # 0
                /\ height = Some(ret.n)

\* height() called on a sheet whose header row lies beyond the grid.
C8_Witness ==
    /\ op = "height"
    /\ GridHeight >= 1
    /\ offset > GridHeight

\* C9, as claimed: with more fields than grid columns (of a grid with data
\* rows), the conversion ends in the unreachable panic and returns no batch
\* holding the column beyond the grid.
C9_Unreachable ==
    (op = "to_arrow" /\ Len(schema) > GridWidth /\ GridHeight > offset) =>
        /\ ret.kind = "panic"
        /\ ret.text = << UnreachableMsg >>

\* C9, amended: fields beyond the grid's columns raise nothing.  The
\* unreachable panic needs a field of unsupported type; a schema of typed
\* fields always converts; and a returned batch holds every field beyond the
\* grid under its name, each entry of a typed one being null.
C9_BeyondGridIsNull ==
    op = "to_arrow" =>
        /\ ret = Panic(UnreachableMsg) => FieldsOf(SupportedTypes) # 1..Len(schema)
        /\ AllTyped => ret.kind = "batch"
        /\ ret.kind = "batch" =>
              \A i \in (GridWidth + 1)..Len(schema) :
                  /\ ret.batch[i].name = schema[i].name
                  /\ \A r \in 1..Len(ret.batch[i].array.values) :
                        ret.batch[i].array.values[r] = None

\* A batch of a grid with data rows, holding a typed column beyond the grid.
C9_Witness ==
    /\ Converted
    /\ GridWidth >= 1
    /\ \E i \in FieldsOf(TypedTypes) :
          /\ i > GridWidth
          /\ ret.batch[i].array.len >= 1

\* C10: when the offset exceeds the grid height, every column of a schema of
\* supported types, a Null one included, comes out with no rows, and the
\* conversion returns the batch.
C10_UniformBeyondGrid ==
    (op = "to_arrow" /\ AllSupported /\ offset > GridHeight) =>
        /\ ret.kind = "batch"
        /\ \A i \in 1..Len(schema) : ret.batch[i].array.len = 0

====
